---------------------------- MODULE Spec2Model ----------------------------
(***************************************************************************)
(* Model of mcp-searxng's URL reader: the SimpleCache of src/src/cache.ts  *)
(* and the pagination functions and fetchAndConvertToMarkdown of           *)
(* src/unnamed/part_000.                                                   *)
(*                                                                         *)
(* Strings are sequences of one-character strings.  Time is counted in     *)
(* units of 30000 ms, the period of the cache's cleanup timer.             *)
(***************************************************************************)
EXTENDS Integers, Sequences, FiniteSets, TLC

VARIABLES
    now,              \* Date.now(), in units of 30000 ms
    ttlMs,            \* SimpleCache.ttlMs
    cache,            \* SimpleCache.cache: url -> its CacheEntry, Absent when the map has none
    cleanupInterval,  \* SimpleCache.cleanupInterval: Absent (null), or the time its next tick is due
    inv,              \* the invocations of fetchAndConvertToMarkdown, one record per slot
    lastGet,          \* history: the last direct call of SimpleCache.get: its url and return value
    setAt,            \* history: url -> the time of the last direct call of set(url) not cleared or destroyed since
    lastDone,         \* history: url -> the last finished invocation for it with no cache write since
    cancels,          \* history: the number of calls of clearInterval
    destroys,         \* history: the number of calls of destroy
    pagText,          \* input of the pagination call under test: markdownContent
    pagOptions,       \* input of the pagination call under test: options
    pagResult         \* its outcome, NotRun before the call

vars == <<now, ttlMs, cache, cleanupInterval, inv, lastGet, setAt, lastDone,
          cancels, destroys, pagText, pagOptions, pagResult>>

cacheVars == <<now, ttlMs, cache, cleanupInterval, lastGet, setAt, cancels, destroys>>
pagVars == <<pagText, pagOptions, pagResult>>

-----------------------------------------------------------------------------
(* Bounds of the model *)

MaxTextLen == 3
MaxTime == 3
MaxTtl == 2
NumInvocations == 2
MaxParagraphs == 3
MaxLines == 5
MaxDestroys == 2

-----------------------------------------------------------------------------
(* Optional values: an absent (undefined) option is <<>>, a present v is <<v>> *)

Absent == <<>>
Some(v) == <<v>>
IsSet(o) == o # <<>>
Val(o) == o[1]

Min(a, b) == IF a <= b THEN a ELSE b
Max(a, b) == IF a >= b THEN a ELSE b

-----------------------------------------------------------------------------
(* String primitives of JavaScript, on sequences of characters *)

RECURSIVE SeqsUpTo(_, _)
SeqsUpTo(S, n) ==
    IF n = 0 THEN {<<>>}
    ELSE LET shorter == SeqsUpTo(S, n - 1)
         IN  shorter \cup {Append(s, c) : s \in {t \in shorter : Len(t) = n - 1}, c \in S}

\* String.prototype.slice(start, end) for 0 <= start, 0 <= end (0-based, end exclusive)
Slice(s, start, end) == SubSeq(s, start + 1, Min(end, Len(s)))

IsWhitespace(c) == c \in {" ", "\n"}

RECURSIVE TrimStart(_)
TrimStart(s) ==
    IF s # <<>> /\ IsWhitespace(Head(s)) THEN TrimStart(Tail(s)) ELSE s

RECURSIVE TrimEnd(_)
TrimEnd(s) ==
    IF s # <<>> /\ IsWhitespace(s[Len(s)]) THEN TrimEnd(SubSeq(s, 1, Len(s) - 1)) ELSE s

\* String.prototype.trim()
Trim(s) == TrimEnd(TrimStart(s))

\* whether sep occurs in s at 1-based position p
OccursAt(s, sep, p) ==
    /\ p >= 1
    /\ p + Len(sep) - 1 <= Len(s)
    /\ \A k \in 1..Len(sep) : s[p + k - 1] = sep[k]

\* String.prototype.indexOf(sep), 1-based; 0 when sep does not occur
IndexOf(s, sep) ==
    LET hits == {p \in 1..Len(s) : OccursAt(s, sep, p)}
    IN  IF hits = {} THEN 0 ELSE CHOOSE p \in hits : \A q \in hits : p <= q

\* String.prototype.split(sep) for a non-empty separator
RECURSIVE Split(_, _)
Split(s, sep) ==
    LET p == IndexOf(s, sep)
    IN  IF p = 0 THEN <<s>>
        ELSE <<SubSeq(s, 1, p - 1)>> \o Split(SubSeq(s, p + Len(sep), Len(s)), sep)

\* Array.prototype.join(sep)
RECURSIVE Join(_, _)
Join(parts, sep) ==
    IF parts = <<>> THEN <<>>
    ELSE IF Len(parts) = 1 THEN parts[1]
    ELSE parts[1] \o sep \o Join(Tail(parts), sep)

\* the length of the match of /^#+/ on line; 0 when it does not match
RECURSIVE LeadingHashes(_)
LeadingHashes(line) ==
    IF line # <<>> /\ Head(line) = "#" THEN 1 + LeadingHashes(Tail(line)) ELSE 0

\* case folding of the regular expression flag 'i'
Lower(c) == IF c = "A" THEN "a" ELSE c

LowerStr(s) == [k \in 1..Len(s) |-> Lower(s[k])]


-----------------------------------------------------------------------------
(* What a call produces: a returned string, or a thrown exception *)

Returned(s) == [kind |-> "return", name |-> "", value |-> s]
Thrown(n) == [kind |-> "throw", name |-> n, value |-> <<>>]

\* a fixed fragment of a message, held as one element of the string
Msg(m) == <<m>>

-----------------------------------------------------------------------------
(* The pagination functions of src/unnamed/part_000 *)

\* applyCharacterPagination(content, startChar = 0, maxLength?)
applyCharacterPagination(content, startCharOpt, maxLengthOpt) ==
    LET startChar == IF IsSet(startCharOpt) THEN Val(startCharOpt) ELSE 0
        start == Max(0, startChar)
        \* maxLength ? ... : ...  -- an absent maxLength and a maxLength of 0 are both falsy
        end == IF IsSet(maxLengthOpt) /\ Val(maxLengthOpt) # 0
               THEN Min(Len(content), start + Val(maxLengthOpt))
               ELSE Len(content)
    IN  IF startChar >= Len(content) THEN <<>> ELSE Slice(content, start, end)

\* new RegExp(`^#{1,6}\s*.*${sectionHeading}.*$`, 'i') is a syntax error when the
\* interpolated heading is not a regular expression: here, when it opens a group
RegExpCompiles(sectionHeading) == \A k \in 1..Len(sectionHeading) : sectionHeading[k] # "("

\* sectionRegex.test(line), for a heading of literal characters.  In the template
\* literal \s is the letter s, so the pattern is ^#{1,6}s*.*HEADING.*$ : 1 to 6 '#',
\* then anything, then the heading (case folded), then anything.
sectionRegexTest(line, sectionHeading) ==
    \E h \in 1..Min(LeadingHashes(line), 6) :
        \E p \in (h + 1)..(Len(line) + 1) :
            OccursAt(LowerStr(line), LowerStr(sectionHeading), p)

\* lines.slice(startIndex, endIndex), with 0-based indices
SliceLines(lines, startIndex, endIndex) == SubSeq(lines, startIndex + 1, Min(endIndex, Len(lines)))

\* the least element of a non-empty set of indices
Least(S) == CHOOSE i \in S : \A j \in S : i <= j

\* the first loop of extractSection: the 0-based index of the first line the
\* regular expression matches, -1 when none does
findSectionStart(lines, sectionHeading) ==
    IF \E i \in 1..Len(lines) : sectionRegexTest(lines[i], sectionHeading)
    THEN Least({i \in 1..Len(lines) : sectionRegexTest(lines[i], sectionHeading)}) - 1
    ELSE -1

\* a variant of endsSection: every '#' line ends the section, whatever its level
endsSectionAtAnyHeading(lines, i, currentLevel) == LeadingHashes(lines[i]) >= 1

\* whether line i (1-based) ends a section of level currentLevel:
\* match && match[0].length <= currentLevel, for match = line.match(/^#+/)
endsSection(lines, i, currentLevel) ==
    LeadingHashes(lines[i]) >= 1 /\ LeadingHashes(lines[i]) <= currentLevel

\* the second loop of extractSection: the 0-based index of the first line after
\* startIndex that ends the section, lines.length when none does
findSectionEnd(lines, startIndex, currentLevel) ==
    IF \E i \in (startIndex + 2)..Len(lines) : endsSection(lines, i, currentLevel)
    THEN Least({i \in (startIndex + 2)..Len(lines) : endsSection(lines, i, currentLevel)}) - 1
    ELSE Len(lines)

\* extractSection from the line found on: -1, or the 0-based index of the heading
sectionFrom(lines, startIndex) ==
    IF startIndex = -1 THEN Returned(<<>>)
    ELSE Returned(Join(SliceLines(lines, startIndex,
                           findSectionEnd(lines, startIndex, LeadingHashes(lines[startIndex + 1]))),
                       <<"\n">>))

\* extractSection on the lines of the text
sectionOfLines(lines, sectionHeading) ==
    sectionFrom(lines, findSectionStart(lines, sectionHeading))

\* extractSection(markdownContent, sectionHeading)
extractSection(markdownContent, sectionHeading) ==
    IF ~RegExpCompiles(sectionHeading) THEN Thrown("SyntaxError")
    ELSE sectionOfLines(Split(markdownContent, <<"\n">>), sectionHeading)

IsDigit(c) == c \in {"0", "1", "2", "3", "4", "5", "6", "7", "8", "9"}

DigitVal(c) ==
    CASE c = "0" -> 0 [] c = "1" -> 1 [] c = "2" -> 2 [] c = "3" -> 3 [] c = "4" -> 4
      [] c = "5" -> 5 [] c = "6" -> 6 [] c = "7" -> 7 [] c = "8" -> 8 [] c = "9" -> 9

AllDigits(s) == \A k \in 1..Len(s) : IsDigit(s[k])

\* parseInt(s) for a non-empty string of digits
RECURSIVE parseInt(_)
parseInt(s) ==
    IF Len(s) = 1 THEN DigitVal(s[1])
    ELSE 10 * parseInt(SubSeq(s, 1, Len(s) - 1)) + DigitVal(s[Len(s)])

\* range.match(/^(\d+)(?:-(\d*))?$/): <<>> for no match, else <<group 1, group 2>>,
\* group 2 being Absent when the range has no '-'
rangeMatch(range) ==
    LET dash == IndexOf(range, <<"-">>)
        g1 == IF dash = 0 THEN range ELSE SubSeq(range, 1, dash - 1)
        g2 == IF dash = 0 THEN Absent ELSE Some(SubSeq(range, dash + 1, Len(range)))
    IN  IF g1 # <<>> /\ AllDigits(g1) /\ (IsSet(g2) => AllDigits(Val(g2)))
        THEN <<g1, g2>>
        ELSE <<>>

\* markdownContent.split('\n\n').filter(p => p.trim().length > 0)
Paragraphs(markdownContent) ==
    SelectSeq(Split(markdownContent, <<"\n", "\n">>), LAMBDA p : Len(Trim(p)) > 0)

\* a variant of selectParagraphs: a range "N-M" starts one paragraph late
selectParagraphsShifted(paragraphs, start, endStr) ==
    IF start < 0 \/ start >= Len(paragraphs) THEN <<>>
    ELSE IF ~IsSet(endStr) THEN paragraphs[start + 1]
    ELSE IF Val(endStr) = <<>> THEN Join(SliceLines(paragraphs, start, Len(paragraphs)), <<"\n", "\n">>)
    ELSE Join(SliceLines(paragraphs, start + 1, parseInt(Val(endStr))), <<"\n", "\n">>)

\* a variant of selectParagraphs: the end of a range "N-M" is exclusive
selectParagraphsExclusive(paragraphs, start, endStr) ==
    IF start < 0 \/ start >= Len(paragraphs) THEN <<>>
    ELSE IF ~IsSet(endStr) THEN paragraphs[start + 1]
    ELSE IF Val(endStr) = <<>> THEN Join(SliceLines(paragraphs, start, Len(paragraphs)), <<"\n", "\n">>)
    ELSE Join(SliceLines(paragraphs, start, parseInt(Val(endStr)) - 1), <<"\n", "\n">>)

\* extractParagraphRange once the range has matched: start is the 0-based index
selectParagraphs(paragraphs, start, endStr) ==
    IF start < 0 \/ start >= Len(paragraphs) THEN <<>>
    ELSE IF ~IsSet(endStr) THEN paragraphs[start + 1]
    ELSE IF Val(endStr) = <<>> THEN Join(SliceLines(paragraphs, start, Len(paragraphs)), <<"\n", "\n">>)
    ELSE Join(SliceLines(paragraphs, start, parseInt(Val(endStr))), <<"\n", "\n">>)

\* extractParagraphRange on the match m of the range
paragraphsOfMatch(paragraphs, m) ==
    IF m = <<>> THEN <<>>
    ELSE selectParagraphs(paragraphs, parseInt(m[1]) - 1, m[2])

\* extractParagraphRange(markdownContent, range)
extractParagraphRange(markdownContent, range) ==
    paragraphsOfMatch(Paragraphs(markdownContent), rangeMatch(range))

\* /^#{1,6}\s/.test(line)
headingRegexTest(line) ==
    LET h == LeadingHashes(line)
    IN  h >= 1 /\ h <= 6 /\ Len(line) > h /\ IsWhitespace(line[h + 1])

\* extractHeadings(markdownContent)
extractHeadings(markdownContent) ==
    LET headings == SelectSeq(Split(markdownContent, <<"\n">>), headingRegexTest)
    IN  IF Len(headings) = 0 THEN Msg("No headings found in the content.")
        ELSE Join(headings, <<"\n">>)

\* the options bundle PaginationOptions
Options(startChar, maxLength, section, paragraphRange, readHeadings) ==
    [startChar |-> startChar, maxLength |-> maxLength, section |-> section,
     paragraphRange |-> paragraphRange, readHeadings |-> readHeadings]

NoOptions == Options(Absent, Absent, Absent, Absent, Absent)

\* a string option is truthy when it is present and not the empty string
TruthyStr(o) == IsSet(o) /\ Val(o) # <<>>

\* a variant of characterStep: the text is returned without the character window
characterStepSkipped(result, options) == Returned(result)

\* the last step of applyPaginationOptions: the character window
characterStep(result, options) ==
    IF IsSet(options.startChar) \/ IsSet(options.maxLength)
    THEN Returned(applyCharacterPagination(result, options.startChar, options.maxLength))
    ELSE Returned(result)

\* after extractParagraphRange has returned result
afterParagraphRange(result, options) ==
    IF result = <<>>
    THEN Returned(Msg("Paragraph range \"") \o Val(options.paragraphRange)
                  \o Msg("\" is invalid or out of bounds."))
    ELSE characterStep(result, options)

\* the paragraph range step of applyPaginationOptions
paragraphStep(result, options) ==
    IF TruthyStr(options.paragraphRange)
    THEN afterParagraphRange(extractParagraphRange(result, Val(options.paragraphRange)), options)
    ELSE characterStep(result, options)

\* after extractSection has returned or thrown
afterSection(sec, options) ==
    IF sec.kind = "throw" THEN sec
    ELSE IF sec.value = <<>>
    THEN Returned(Msg("Section \"") \o Val(options.section) \o Msg("\" not found in the content."))
    ELSE paragraphStep(sec.value, options)

\* applyPaginationOptions(markdownContent, options)
applyPaginationOptions(markdownContent, options) ==
    IF IsSet(options.readHeadings) /\ Val(options.readHeadings)
        THEN Returned(extractHeadings(markdownContent))
    ELSE IF TruthyStr(options.section)
        THEN afterSection(extractSection(markdownContent, Val(options.section)), options)
    ELSE paragraphStep(markdownContent, options)

-----------------------------------------------------------------------------
(* SimpleCache, src/src/cache.ts *)

\* the strings used as urls and as keys: one that parses as a URL and one that does not
URLs == {"https://a/", "not a url"}

\* setInterval(..., 30000): the period of the cleanup timer, in time units
CLEANUP_INTERVAL == 1

\* constructor(ttlMs = 60000): the default TTL, in time units
DEFAULT_TTL == 2

CacheEntry(htmlContent, markdownContent, timestamp) ==
    [htmlContent |-> htmlContent, markdownContent |-> markdownContent, timestamp |-> timestamp]

\* new Map()
EmptyMap == [u \in URLs |-> Absent]

\* a variant of isExpired: an entry of age TTL counts as expired
isExpiredAtTtl(entry, t, ttl) == t - entry.timestamp >= ttl

\* the expiry test of get: Date.now() - entry.timestamp > this.ttlMs
isExpired(entry, t, ttl) == t - entry.timestamp > ttl

\* get(url) at time t: the map afterwards and the value returned (Absent for null)
cacheGet(c, url, t, ttl) ==
    IF ~IsSet(c[url]) THEN [cache |-> c, ret |-> Absent]
    ELSE IF isExpired(Val(c[url]), t, ttl)
        THEN [cache |-> [c EXCEPT ![url] = Absent], ret |-> Absent]
    ELSE [cache |-> c, ret |-> c[url]]

\* a variant of set: an entry already in the map is kept (first write wins)
cacheSetIfAbsent(c, url, htmlContent, markdownContent, t) ==
    IF IsSet(c[url]) THEN c
    ELSE [c EXCEPT ![url] = Some(CacheEntry(htmlContent, markdownContent, t))]

\* set(url, htmlContent, markdownContent) at time t
cacheSet(c, url, htmlContent, markdownContent, t) ==
    [c EXCEPT ![url] = Some(CacheEntry(htmlContent, markdownContent, t))]

\* a variant of cleanupExpired: it evicts an entry one interval late
cleanupExpiredLate(c, t, ttl) ==
    [u \in URLs |-> IF IsSet(c[u]) /\ t - Val(c[u]).timestamp > ttl + CLEANUP_INTERVAL
                    THEN Absent ELSE c[u]]

\* a variant of cleanupExpired: it evicts an entry of age TTL
cleanupExpiredEarly(c, t, ttl) ==
    [u \in URLs |-> IF IsSet(c[u]) /\ t - Val(c[u]).timestamp >= ttl THEN Absent ELSE c[u]]

\* cleanupExpired() at time t
cleanupExpired(c, t, ttl) ==
    [u \in URLs |-> IF IsSet(c[u]) /\ t - Val(c[u]).timestamp > ttl THEN Absent ELSE c[u]]

\* clear()
cacheClear(c) == EmptyMap

\* the contents the direct calls of set store: htmlContent, markdownContent
SetContents == {<<<<"<p>", "a", "</p>">>, <<"a">>>>, <<<<"<p>", "b", "</p>">>, <<"b">>>>}

NoHistory == [u \in URLs |-> Absent]

\* time passes; a cleanup tick that is due runs first
Tick ==
    /\ now < MaxTime
    /\ IsSet(cleanupInterval) => Val(cleanupInterval) > now
    /\ now' = now + 1
    /\ UNCHANGED <<ttlMs, cache, cleanupInterval, inv, lastGet, setAt, lastDone, cancels, destroys, pagVars>>

\* the callback of setInterval: cleanupExpired()
SweepTick ==
    /\ IsSet(cleanupInterval)
    /\ Val(cleanupInterval) <= now
    /\ cache' = cleanupExpired(cache, now, ttlMs)
    /\ cleanupInterval' = Some(Val(cleanupInterval) + CLEANUP_INTERVAL)
    /\ UNCHANGED <<now, ttlMs, inv, lastGet, setAt, lastDone, cancels, destroys, pagVars>>

\* a direct call of get(url)
Get(url) ==
    LET g == cacheGet(cache, url, now, ttlMs)
    IN  /\ cache' = g.cache
        /\ lastGet' = Some([url |-> url, ret |-> g.ret])
        /\ UNCHANGED <<now, ttlMs, cleanupInterval, inv, setAt, lastDone, cancels, destroys, pagVars>>

\* a direct call of set(url, htmlContent, markdownContent)
Set(url, htmlContent, markdownContent) ==
    /\ cache' = cacheSet(cache, url, htmlContent, markdownContent, now)
    /\ setAt' = [setAt EXCEPT ![url] = Some(now)]
    /\ lastDone' = [lastDone EXCEPT ![url] = Absent]
    /\ UNCHANGED <<now, ttlMs, cleanupInterval, inv, lastGet, cancels, destroys, pagVars>>

\* clear()
Clear ==
    /\ cache' = cacheClear(cache)
    /\ setAt' = NoHistory
    /\ lastDone' = NoHistory
    /\ UNCHANGED <<now, ttlMs, cleanupInterval, inv, lastGet, cancels, destroys, pagVars>>

\* a variant of clearIntervalCalls: destroy does not test the timer
clearIntervalCallsUnguarded(interval) == 1

\* the calls of clearInterval one destroy() makes: if (this.cleanupInterval) { ... }
clearIntervalCalls(interval) == IF IsSet(interval) THEN 1 ELSE 0

\* destroy()
Destroy ==
    /\ destroys < MaxDestroys
    /\ destroys' = destroys + 1
    /\ cancels' = cancels + clearIntervalCalls(cleanupInterval)
    /\ cleanupInterval' = IF IsSet(cleanupInterval) THEN Absent ELSE cleanupInterval
    /\ cache' = cacheClear(cache)
    /\ setAt' = NoHistory
    /\ lastDone' = NoHistory
    /\ UNCHANGED <<now, ttlMs, inv, lastGet, pagVars>>

-----------------------------------------------------------------------------
(* The errors of error-handler.js, by kind *)

\* an exception: its name, its kind when it is one of the classified errors, the
\* url it carries, and the name of the error it wraps
Exception(name, kind, url, cause) == [name |-> name, kind |-> kind, url |-> url, cause |-> cause]

NoException == Exception("", "", "", "")

\* an error thrown by the platform (fetch, RegExp, ...)
NativeError(name) == Exception(name, "", "", "")

createURLFormatError(url) == Exception("MCPSearXNGError", "URLFormatError", url, "")
createNetworkError(error, url) == Exception("MCPSearXNGError", "NetworkError", url, error.name)
createServerError(url) == Exception("MCPSearXNGError", "ServerError", url, "")
createContentError(url) == Exception("MCPSearXNGError", "ContentError", url, "")
createConversionError(error, url) == Exception("MCPSearXNGError", "ConversionError", url, error.name)
createTimeoutError(url) == Exception("MCPSearXNGError", "TimeoutError", url, "")
createUnexpectedError(error, url) == Exception("MCPSearXNGError", "UnexpectedError", url, error.name)

\* the string createEmptyContentWarning returns
createEmptyContentWarning(url) == Msg("Content Warning: empty content after conversion: ") \o <<url>>

ErrorKinds == {"URLFormatError", "NetworkError", "TimeoutError", "ServerError",
               "ContentError", "ConversionError", "UnexpectedError"}

-----------------------------------------------------------------------------
(* The collaborators of fetchAndConvertToMarkdown *)

\* new URL(url) does not throw
ValidUrl(url) == url = "https://a/"

IsTag(c) == c \in {"<p>", "</p>"}

\* the bodies a response delivers; a tag is one element
Bodies == {<<>>, <<"<p>", " ", "</p>">>,
           <<"<p>", "a", "</p>">>, <<"<p>", "b", "</p>">>, <<"<![">>}

\* NodeHtmlMarkdown.translate(html): the text without its tags; it fails on malformed input
translate(html) ==
    IF \E k \in 1..Len(html) : html[k] = "<![" THEN Thrown("Error")
    ELSE Returned(SelectSeq(html, LAMBDA c : ~IsTag(c)))

\* !s || s.trim().length === 0
IsBlank(s) == s = <<>> \/ Len(Trim(s)) = 0

\* the pagination options the invocations are given
InvocationOptions ==
    {NoOptions,
     Options(Absent, Absent, Some(<<"(">>), Absent, Absent)}

-----------------------------------------------------------------------------
(* fetchAndConvertToMarkdown, src/unnamed/part_000 *)

Slots == 1..NumInvocations

NoOutcome == [status |-> "none", value |-> <<>>, error |-> NoException]
ReturnedText(s) == [status |-> "returned", value |-> s, error |-> NoException]
Threw(e) == [status |-> "threw", value |-> <<>>, error |-> e]

Idle ==
    [pc |-> "idle", url |-> "", options |-> NoOptions, timer |-> "none",
     hit |-> FALSE, fetched |-> FALSE, stored |-> FALSE, outcome |-> NoOutcome]

\* history of a finished invocation: when it wrote the cache, if it did, whether
\* it called fetch, whether it returned the empty-content warning, and whether the
\* cache held an entry for its url when it ended
Finished(storedAt, fetched, degraded, populated) ==
    [storedAt |-> storedAt, fetched |-> fetched, degraded |-> degraded,
     populated |-> populated]

\* the catch clause of the outer try: what it throws for a caught error
outerCatch(error, url) ==
    IF error.name = "AbortError" THEN createTimeoutError(url)
    ELSE IF error.name = "MCPSearXNGError" THEN error
    ELSE createUnexpectedError(error, url)

\* the catch clause around fetch(): what it throws for a caught error
fetchCatch(error, url) == createNetworkError(error, url)

\* a variant of finallyTimer: the timer is left as it is
finallyTimerSkipped(timer) == timer

\* the finally clause: clearTimeout(timeoutId)
finallyTimer(timer) == "cleared"

\* the cache-hit path, outside any try: what applyPaginationOptions returns is
\* returned, what it throws is thrown as it is
hitResult(page) ==
    IF page.kind = "throw" THEN Threw(NativeError(page.name)) ELSE ReturnedText(page.value)

hitOutcome(entry, options) ==
    hitResult(applyPaginationOptions(entry.markdownContent, options))

\* from the call to the first await: cache check, URL validation, timer, fetch().
\* The slots number the calls in the order they are made.
Start(i, url, options) ==
    LET g == cacheGet(cache, url, now, ttlMs)
        rec == [inv[i] EXCEPT !.url = url, !.options = options]
    IN  /\ inv[i].pc = "idle"
        /\ \A k \in Slots : k < i => inv[k].pc # "idle"
        /\ cache' = g.cache
        /\ IF IsSet(g.ret)
             THEN /\ inv' = [inv EXCEPT ![i] = [rec EXCEPT !.pc = "done", !.hit = TRUE,
                                 !.outcome = hitOutcome(Val(g.ret), options)]]
                  /\ lastDone' = [lastDone EXCEPT ![url] =
                                    Some(Finished(Absent, FALSE, FALSE, TRUE))]
           ELSE IF ~ValidUrl(url)
             THEN /\ inv' = [inv EXCEPT ![i] = [rec EXCEPT !.pc = "done",
                                 !.outcome = Threw(createURLFormatError(url))]]
                  /\ lastDone' = [lastDone EXCEPT ![url] =
                                    Some(Finished(Absent, FALSE, FALSE, FALSE))]
           ELSE /\ inv' = [inv EXCEPT ![i] = [rec EXCEPT !.pc = "fetching",
                                 !.timer = "pending", !.fetched = TRUE]]
                /\ UNCHANGED lastDone
        /\ UNCHANGED <<now, ttlMs, cleanupInterval, lastGet, setAt, cancels, destroys, pagVars>>

\* the callback of setTimeout: controller.abort(), while fetch() is pending. Once
\* the response has arrived an abort can only make response.text() reject, which
\* ErrorBodySettle and BodyReject cover.
TimerFire(i) ==
    /\ inv[i].pc = "fetching"
    /\ inv[i].timer = "pending"
    /\ inv' = [inv EXCEPT ![i].timer = "fired"]
    /\ UNCHANGED <<cacheVars, lastDone, pagVars>>

\* an invocation ends by throwing e from inside the outer try
ThrowInTry(i, e) ==
    /\ inv' = [inv EXCEPT ![i].pc = "done",
                          ![i].timer = finallyTimer(inv[i].timer),
                          ![i].outcome = Threw(outerCatch(e, inv[i].url))]
    /\ lastDone' = [lastDone EXCEPT ![inv[i].url] =
                      Some(Finished(Absent, TRUE, FALSE, IsSet(cache[inv[i].url])))]
    /\ UNCHANGED <<cacheVars, pagVars>>

\* await fetch(url, requestOptions) rejects: with AbortError once the signal has
\* aborted, with a transport error otherwise
FetchReject(i) ==
    /\ inv[i].pc = "fetching"
    /\ ThrowInTry(i, fetchCatch(NativeError(IF inv[i].timer = "fired" THEN "AbortError"
                                                                       ELSE "TypeError"),
                                inv[i].url))

\* await fetch(url, requestOptions) resolves with a response, ok or not
FetchResolve(i, ok) ==
    /\ inv[i].pc = "fetching"
    /\ inv[i].timer = "pending"
    /\ inv' = [inv EXCEPT ![i].pc = IF ok THEN "body" ELSE "errorBody"]
    /\ UNCHANGED <<cacheVars, lastDone, pagVars>>

\* !response.ok: await response.text() settles either way, then createServerError
ErrorBodySettle(i) ==
    /\ inv[i].pc = "errorBody"
    /\ ThrowInTry(i, createServerError(inv[i].url))

\* await response.text() rejects
BodyReject(i) ==
    /\ inv[i].pc = "body"
    /\ ThrowInTry(i, createContentError(inv[i].url))

\* the pagination inside the try: what applyPaginationOptions throws goes to the catch
missResult(page, url) ==
    IF page.kind = "throw" THEN Threw(outerCatch(NativeError(page.name), url))
    ELSE ReturnedText(page.value)

\* a variant of afterTranslate: the cache is written before the empty check
afterTranslateStoresBlank(conv, url, options) ==
    IF conv.kind = "throw"
        THEN [store |-> FALSE,
              outcome |-> Threw(outerCatch(createConversionError(NativeError(conv.name), url), url))]
    ELSE IF IsBlank(conv.value)
        THEN [store |-> TRUE, outcome |-> ReturnedText(createEmptyContentWarning(url))]
    ELSE [store |-> TRUE,
          outcome |-> missResult(applyPaginationOptions(conv.value, options), url)]

\* a variant of afterTranslate: an empty conversion is thrown as a content error
afterTranslateThrowsOnBlank(conv, url, options) ==
    IF conv.kind = "throw"
        THEN [store |-> FALSE,
              outcome |-> Threw(outerCatch(createConversionError(NativeError(conv.name), url), url))]
    ELSE IF IsBlank(conv.value)
        THEN [store |-> FALSE, outcome |-> Threw(outerCatch(createContentError(url), url))]
    ELSE [store |-> TRUE,
          outcome |-> missResult(applyPaginationOptions(conv.value, options), url)]

\* from the conversion to the return; store tells whether urlCache.set is reached
afterTranslate(conv, url, options) ==
    IF conv.kind = "throw"
        THEN [store |-> FALSE,
              outcome |-> Threw(outerCatch(createConversionError(NativeError(conv.name), url), url))]
    ELSE IF IsBlank(conv.value)
        THEN [store |-> FALSE, outcome |-> ReturnedText(createEmptyContentWarning(url))]
    ELSE [store |-> TRUE,
          outcome |-> missResult(applyPaginationOptions(conv.value, options), url)]

\* from the body to the return: the checks, the conversion, the cache write and the
\* pagination
processBody(url, htmlContent, options) ==
    IF IsBlank(htmlContent)
        THEN [store |-> FALSE, outcome |-> Threw(outerCatch(createContentError(url), url))]
    ELSE afterTranslate(translate(htmlContent), url, options)

\* await response.text() resolves with htmlContent; the rest of the function runs
BodyResolve(i, htmlContent) ==
    LET url == inv[i].url
        r == processBody(url, htmlContent, inv[i].options)
    IN  /\ inv[i].pc = "body"
        /\ cache' = IF r.store
                    THEN cacheSet(cache, url, htmlContent, translate(htmlContent).value, now)
                    ELSE cache
        /\ inv' = [inv EXCEPT ![i].pc = "done",
                              ![i].timer = finallyTimer(inv[i].timer),
                              ![i].stored = r.store,
                              ![i].outcome = r.outcome]
        /\ lastDone' = [lastDone EXCEPT ![url] =
                          Some(Finished(IF r.store THEN Some(now) ELSE Absent, TRUE,
                                        ~r.store /\ r.outcome.status = "returned",
                                        r.store \/ IsSet(cache[url])))]
        /\ UNCHANGED <<now, ttlMs, cleanupInterval, lastGet, setAt, cancels, destroys, pagVars>>

-----------------------------------------------------------------------------
(* The specifications *)

NotRun == [kind |-> "none", name |-> "", value |-> <<>>]

\* the module's urlCache = new SimpleCache(), and no invocation yet
Init ==
    /\ now = 0
    /\ ttlMs = DEFAULT_TTL
    /\ cache = EmptyMap
    /\ cleanupInterval = Some(CLEANUP_INTERVAL)
    /\ inv = [i \in Slots |-> Idle]
    /\ lastGet = Absent
    /\ setAt = NoHistory
    /\ lastDone = NoHistory
    /\ cancels = 0
    /\ destroys = 0
    /\ pagText = <<>>
    /\ pagOptions = NoOptions
    /\ pagResult = NotRun

\* the invocations against urlCache, with time and the sweep timer running. No code
\* under src/ calls urlCache.clear() or urlCache.destroy(); CacheSpec drives them.
Next ==
    \/ Tick
    \/ SweepTick
    \/ \E i \in Slots, url \in URLs, options \in InvocationOptions : Start(i, url, options)
    \/ \E i \in Slots : TimerFire(i)
    \/ \E i \in Slots : FetchReject(i)
    \/ \E i \in Slots, ok \in BOOLEAN : FetchResolve(i, ok)
    \/ \E i \in Slots : ErrorBodySettle(i)
    \/ \E i \in Slots : BodyReject(i)
    \/ \E i \in Slots, htmlContent \in Bodies : BodyResolve(i, htmlContent)

Spec == Init /\ [][Next]_vars

\* a cache of its own: new SimpleCache(ttlMs), driven through its methods
CacheInit ==
    /\ now = 0
    /\ ttlMs \in 0..MaxTtl
    /\ cache = EmptyMap
    /\ cleanupInterval = Some(CLEANUP_INTERVAL)
    /\ inv = [i \in Slots |-> Idle]
    /\ lastGet = Absent
    /\ setAt = NoHistory
    /\ lastDone = NoHistory
    /\ cancels = 0
    /\ destroys = 0
    /\ pagText = <<>>
    /\ pagOptions = NoOptions
    /\ pagResult = NotRun

CacheNext ==
    \/ Tick
    \/ SweepTick
    \/ \E url \in URLs : Get(url)
    \/ \E url \in URLs, content \in SetContents : Set(url, content[1], content[2])
    \/ Clear
    \/ Destroy

CacheSpec == CacheInit /\ [][CacheNext]_vars

\* the characters of the texts and the option values the pagination is run on
TextChars == {"#", " ", "\n", "a"}
Texts == SeqsUpTo(TextChars, MaxTextLen)
Sections == {Absent, Some(<<>>), Some(<<"a">>), Some(<<"A">>), Some(<<"#">>), Some(<<"(">>), Some(<<"a", "(">>)}
ParagraphRanges == {Absent, Some(<<>>), Some(<<"1">>), Some(<<"2">>), Some(<<"0">>), Some(<<"1", "-">>),
                    Some(<<"1", "-", "2">>), Some(<<"x">>)}
CharOffsets == {Absent, Some(0), Some(1), Some(2)}
Flags == {Absent, Some(FALSE), Some(TRUE)}

PagInit ==
    /\ now = 0
    /\ ttlMs = DEFAULT_TTL
    /\ cache = EmptyMap
    /\ cleanupInterval = Some(CLEANUP_INTERVAL)
    /\ inv = [i \in Slots |-> Idle]
    /\ lastGet = Absent
    /\ setAt = NoHistory
    /\ lastDone = NoHistory
    /\ cancels = 0
    /\ destroys = 0
    /\ pagText \in Texts
    /\ pagOptions \in {Options(sc, ml, se, pr, rh) : sc \in CharOffsets, ml \in CharOffsets,
                           se \in Sections, pr \in ParagraphRanges, rh \in Flags}
    /\ pagResult = NotRun

\* the call applyPaginationOptions(pagText, pagOptions)
Paginate ==
    /\ pagResult = NotRun
    /\ pagResult' = applyPaginationOptions(pagText, pagOptions)
    /\ UNCHANGED <<cacheVars, inv, lastDone, pagText, pagOptions>>

PagNext == Paginate

PagSpec == PagInit /\ [][PagNext]_vars

\* the documents the paragraph range is run on: up to MaxParagraphs pieces joined
\* by blank lines, a piece of whitespace being no paragraph
ParagraphPieces == {<<"a">>, <<"b">>, <<" ">>}
ParagraphTexts ==
    {Join(ps, <<"\n", "\n">>) : ps \in SeqsUpTo(ParagraphPieces, MaxParagraphs)}

\* the decimal digits, and the numeral of n for 0 <= n <= 9
DigitChars == <<"0", "1", "2", "3", "4", "5", "6", "7", "8", "9">>
Numeral(n) == <<DigitChars[n + 1]>>

\* the numbers a range is written with: 0, the paragraphs, and one past the last
RangeNumbers == 0..(MaxParagraphs + 1)

\* the range strings "N", "N-" and "N-M"
RangeSingle(n) == Numeral(n)
RangeOpen(n) == Numeral(n) \o <<"-">>
RangeClosed(n, m) == Numeral(n) \o <<"-">> \o Numeral(m)

\* the values of paragraphRange: absent, empty, unparsable, "N", "N-", "N-M"
RangeOptions ==
    {Absent, Some(<<>>), Some(<<"x">>), Some(<<"-", "1">>)}
    \cup {Some(RangeSingle(n)) : n \in RangeNumbers}
    \cup {Some(RangeOpen(n)) : n \in RangeNumbers}
    \cup {Some(RangeClosed(n, m)) : n \in RangeNumbers, m \in RangeNumbers}

\* applyPaginationOptions is called with a document and a paragraph range only
ParInit ==
    /\ now = 0
    /\ ttlMs = DEFAULT_TTL
    /\ cache = EmptyMap
    /\ cleanupInterval = Some(CLEANUP_INTERVAL)
    /\ inv = [i \in Slots |-> Idle]
    /\ lastGet = Absent
    /\ setAt = NoHistory
    /\ lastDone = NoHistory
    /\ cancels = 0
    /\ destroys = 0
    /\ pagText \in ParagraphTexts
    /\ pagOptions \in {Options(Absent, Absent, Absent, pr, Absent) : pr \in RangeOptions}
    /\ pagResult = NotRun

ParNext == Paginate

ParSpec == ParInit /\ [][ParNext]_vars

\* the lines of the documents sections are extracted from: headings of level 1 and
\* 2, a line of text, and a '#' line with no whitespace after the marker
HeadingA == <<"#", " ", "A">>
HeadingB == <<"#", "#", " ", "B">>
HeadingC == <<"#", " ", "C">>
TextLine == <<"t">>
UnspacedA == <<"#", "A">>
SectionLines == {HeadingA, HeadingB, HeadingC, TextLine, UnspacedA}

\* the documents: up to MaxLines lines joined by newlines
SectionTexts == {Join(ls, <<"\n">>) : ls \in SeqsUpTo(SectionLines, MaxLines)}

\* the headings asked for
SectionRequests == {Some(<<"A">>), Some(<<"B">>)}

\* applyPaginationOptions is called with a document and a section only
SecInit ==
    /\ now = 0
    /\ ttlMs = DEFAULT_TTL
    /\ cache = EmptyMap
    /\ cleanupInterval = Some(CLEANUP_INTERVAL)
    /\ inv = [i \in Slots |-> Idle]
    /\ lastGet = Absent
    /\ setAt = NoHistory
    /\ lastDone = NoHistory
    /\ cancels = 0
    /\ destroys = 0
    /\ pagText \in SectionTexts
    /\ pagOptions \in {Options(Absent, Absent, se, Absent, Absent) : se \in SectionRequests}
    /\ pagResult = NotRun

SecNext == Paginate

SecSpec == SecInit /\ [][SecNext]_vars

-----------------------------------------------------------------------------
(* The claims *)

\* the step is the first step of invocation j, for url
Starts(j, url) == \E options \in InvocationOptions : Start(j, url, options)

\* the step is the last step of invocation i
Ends(i) == inv[i].pc # "done" /\ inv'[i].pc = "done"

\* C1 as stated, for the urls that parse and the calls made before one TTL has
\* passed since the module was loaded, any two of which are within the TTL of each
\* other: a call that follows a call for the same url, with no cache write in
\* between, hits the cache, and the two calls together fetch at most once.
C1_SecondCallHits ==
    [][\A j \in Slots, url \in URLs :
          (/\ ValidUrl(url)
           /\ IsSet(lastDone[url])
           /\ now <= ttlMs
           /\ Starts(j, url))
          => /\ inv'[j].hit
             /\ ~(Val(lastDone[url]).fetched /\ inv'[j].fetched)]_vars

\* C1 amended: when the previous call for the url fetched it and stored its
\* conversion, a call made within the TTL of that store, with no cache write, clear
\* or destroy in between, hits the cache and does not fetch: the two calls together
\* fetch once.
C1_SecondCallHitsAfterStore ==
    [][\A j \in Slots, url \in URLs :
          (/\ IsSet(lastDone[url])
           /\ IsSet(Val(lastDone[url]).storedAt)
           /\ now <= Val(Val(lastDone[url]).storedAt) + ttlMs
           /\ Starts(j, url))
          => /\ inv'[j].hit
             /\ inv'[j].pc = "done"
             /\ ~inv'[j].fetched
             /\ Val(lastDone[url]).fetched]_vars

\* the last call that ended for a url was served from the entry an earlier call
\* had stored, the entry now at the last moment of its TTL
C1_Witness ==
    \E i, j \in Slots :
        /\ i < j
        /\ inv[i].pc = "done" /\ inv[i].stored /\ inv[i].fetched
        /\ inv[j].pc = "done" /\ inv[j].hit /\ ~inv[j].fetched
        /\ inv[j].url = inv[i].url
        /\ lastDone[inv[j].url] = Some(Finished(Absent, FALSE, FALSE, TRUE))
        /\ IsSet(cache[inv[j].url])
        /\ now = Val(cache[inv[j].url]).timestamp + ttlMs

\* C2: an entry set at time T and not overwritten, cleared or destroyed since is
\* what get returns at every time up to and including T + TTL, and get returns
\* null at every later time, sweep or no sweep; the get that finds it expired
\* removes it from the map.
C2_GetWithinTtl ==
    [][\A url \in URLs :
          (Get(url) /\ IsSet(setAt[url]))
          => IF now <= Val(setAt[url]) + ttlMs
             THEN /\ IsSet(Val(lastGet').ret)
                  /\ Val(lastGet').ret = cache[url]
                  /\ Val(Val(lastGet').ret).timestamp = Val(setAt[url])
                  /\ cache' = cache
             ELSE /\ Val(lastGet').ret = Absent
                  /\ cache'[url] = Absent]_vars

\* a get found the entry expired before any sweep was due to run at that time,
\* returned null and removed it
C2_Witness ==
    \E url \in URLs :
        /\ lastGet = Some([url |-> url, ret |-> Absent])
        /\ IsSet(setAt[url])
        /\ now = Val(setAt[url]) + ttlMs + 1
        /\ IsSet(cleanupInterval) /\ Val(cleanupInterval) = now
        /\ cache[url] = Absent

\* the age of the entry stored for url, 0 when there is none
Age(url) == IF IsSet(cache[url]) THEN now - Val(cache[url]).timestamp ELSE 0

\* C3 as stated: in every reachable state of the cache no stored entry is older
\* than TTL plus one cleanup interval.
C3_AgeBounded == \A url \in URLs : Age(url) <= ttlMs + CLEANUP_INTERVAL

\* C3 amended: as long as the cleanup timer runs (destroy has not been called), no
\* stored entry is older than TTL plus one cleanup interval.
C3_AgeBoundedWhileSweeping ==
    IsSet(cleanupInterval) => \A url \in URLs : Age(url) <= ttlMs + CLEANUP_INTERVAL

\* an entry has reached the age of TTL plus one interval, the timer running
C3_Witness ==
    /\ IsSet(cleanupInterval)
    /\ \E url \in URLs : IsSet(cache[url]) /\ Age(url) = ttlMs + CLEANUP_INTERVAL

\* the invocation returned the empty-content warning
Degraded(i) ==
    /\ inv[i].pc = "done"
    /\ inv[i].outcome = ReturnedText(createEmptyContentWarning(inv[i].url))

\* C4: every entry of the cache holds markdown that is not empty after trimming,
\* and no invocation that ended with the warning, a content error or a conversion
\* error has written the cache.
C4_OnlyNonEmptyStored ==
    /\ \A url \in URLs :
          IsSet(cache[url]) => Len(Trim(Val(cache[url]).markdownContent)) > 0
    /\ \A i \in Slots :
          (\/ Degraded(i)
           \/ inv[i].outcome.error.kind \in {"ContentError", "ConversionError"})
          => ~inv[i].stored

\* an invocation ended with the warning while the cache held the entry another
\* invocation had stored for the same url
C4_Witness ==
    \E i, j \in Slots :
        /\ Degraded(i)
        /\ inv[j].pc = "done" /\ inv[j].stored /\ inv[j].url = inv[i].url
        /\ IsSet(cache[inv[i].url])

\* C5: a fetch that rejects after the timeout has fired ends the invocation with
\* TimeoutError; a fetch that rejects otherwise ends it with NetworkError.
C5_TimeoutIsTimeoutError ==
    [][\A i \in Slots :
          FetchReject(i)
          => inv'[i].outcome.error.kind =
                 (IF inv[i].timer = "fired" THEN "TimeoutError" ELSE "NetworkError")]_vars

\* C6: whatever an invocation throws is one of the classified errors; an error of
\* any other kind leaves wrapped as UnexpectedError.
C6_NothingEscapesUnwrapped ==
    \A i \in Slots :
        inv[i].outcome.status = "threw"
        => /\ inv[i].outcome.error.name = "MCPSearXNGError"
           /\ inv[i].outcome.error.kind \in ErrorKinds

\* C7: an invocation that has ended has no timeout timer pending.
C7_NoTimerPendingAtEnd ==
    \A i \in Slots : inv[i].pc = "done" => inv[i].timer # "pending"

\* an invocation that had armed its timer ended by throwing
C7_Witness ==
    \E i \in Slots :
        /\ inv[i].pc = "done"
        /\ inv[i].fetched
        /\ inv[i].timer = "cleared"
        /\ inv[i].outcome.status = "threw"

\* C8: when the body converts to empty or whitespace-only text the invocation
\* returns the warning and leaves the cache as it was; and a call that follows an
\* invocation that ended so, the cache holding no entry another invocation has
\* stored for the url in the meantime, misses the cache and fetches.
C8_DegradedIsNotCached ==
    [][/\ \A i \in Slots, htmlContent \in Bodies :
             (/\ inv[i].pc = "body"
              /\ inv'[i].pc = "done"
              /\ ~IsBlank(htmlContent)
              /\ translate(htmlContent).kind = "return"
              /\ IsBlank(translate(htmlContent).value)
              /\ BodyResolve(i, htmlContent))
             => /\ inv'[i].outcome = ReturnedText(createEmptyContentWarning(inv[i].url))
                /\ cache' = cache
       /\ \A j \in Slots, url \in URLs :
             (/\ IsSet(lastDone[url])
              /\ Val(lastDone[url]).degraded
              /\ ~Val(lastDone[url]).populated
              /\ Starts(j, url))
             => /\ ~inv'[j].hit
                /\ inv'[j].pc = "fetching"
                /\ inv'[j].fetched]_vars

\* after an invocation has returned the warning, another one for the same url is
\* fetching
C8_Witness ==
    \E i, j \in Slots :
        /\ Degraded(i)
        /\ inv[j].pc = "fetching" /\ inv[j].url = inv[i].url
        /\ IsSet(lastDone[inv[i].url])
        /\ Val(lastDone[inv[i].url]).degraded
        /\ cache[inv[i].url] = Absent

\* C9: the step in which an invocation ends by throwing adds no entry to the
\* cache and replaces none; when it throws the NetworkError it carries the
\* requested url.
C9_FailureAddsNoEntry ==
    [][\A i \in Slots :
          (Ends(i) /\ inv'[i].outcome.status = "threw")
          => /\ \A url \in URLs : IsSet(cache'[url]) => cache'[url] = cache[url]
             /\ inv'[i].outcome.error.kind = "NetworkError"
                    => inv'[i].outcome.error.url = inv'[i].url]_vars

\* C10: applyPaginationOptions returns a string for every text and every options
\* bundle; it never throws.
C10_PaginationIsTotal == pagResult.kind # "throw"

\* the message applyPaginationOptions returns for a range that selects nothing
RangePlaceholder(range) ==
    Msg("Paragraph range \"") \o range \o Msg("\" is invalid or out of bounds.")

\* C11: applyPaginationOptions with paragraphRange "" on a document of three
\* paragraphs returns the 'invalid or out of bounds' placeholder.
C11_EmptyRangeIsInvalid ==
    (/\ pagResult # NotRun
     /\ pagOptions.paragraphRange = Some(<<>>)
     /\ Len(Paragraphs(pagText)) = 3)
    => pagResult = Returned(RangePlaceholder(<<>>))

\* the character window as C12 states it: empty from startChar >= length on, else
\* the text from max(0, startChar) to min(length, start + maxLength) when maxLength
\* is given, and to the end of the text when it is not
WindowAsStated(text, startCharOpt, maxLengthOpt) ==
    LET startChar == IF IsSet(startCharOpt) THEN Val(startCharOpt) ELSE 0
        start == Max(0, startChar)
    IN  IF startChar >= Len(text) THEN <<>>
        ELSE IF IsSet(maxLengthOpt)
            THEN SubSeq(text, start + 1, Min(Len(text), start + Val(maxLengthOpt)))
        ELSE SubSeq(text, start + 1, Len(text))

\* the call has a character window and no other option in effect
WindowOnly(options) ==
    /\ IsSet(options.startChar) \/ IsSet(options.maxLength)
    /\ ~(IsSet(options.readHeadings) /\ Val(options.readHeadings))
    /\ ~TruthyStr(options.section)
    /\ ~TruthyStr(options.paragraphRange)

\* C12: for every text and all non-negative startChar and maxLength, maxLength = 0
\* included, the character window returns the window as stated.
C12_WindowAsStated ==
    (pagResult # NotRun /\ WindowOnly(pagOptions))
    => pagResult = Returned(WindowAsStated(pagText, pagOptions.startChar, pagOptions.maxLength))

\* the line starts with '#' and holds the requested text after it, case folded
MatchesRequest(line, request) ==
    /\ LeadingHashes(line) >= 1
    /\ \E p \in 2..(Len(line) + 1) : OccursAt(LowerStr(line), LowerStr(request), p)

\* the 1-based index of the first of the lines that matches the request, 0 when
\* none does
FirstMatch(lines, request) ==
    IF \E i \in 1..Len(lines) : MatchesRequest(lines[i], request)
    THEN Least({i \in 1..Len(lines) : MatchesRequest(lines[i], request)})
    ELSE 0

\* the line is a heading of level L or less, counting the '#' it starts with
ClosesLevel(line, L) == LeadingHashes(line) >= 1 /\ LeadingHashes(line) <= L

\* result is the run of the lines that starts at line s, holds no later line of
\* level <= L, and stops only before a line of level <= L or at the end
IsSectionRun(lines, result, s, L) ==
    /\ Len(result) >= 1
    /\ s + Len(result) - 1 <= Len(lines)
    /\ result = SubSeq(lines, s, s + Len(result) - 1)
    /\ \A k \in 2..Len(result) : ~ClosesLevel(result[k], L)
    /\ s + Len(result) <= Len(lines) => ClosesLevel(lines[s + Len(result)], L)

\* result is the section of the lines that starts at the matching line s, if any
IsSectionFrom(lines, result, s) ==
    s > 0 => /\ result.kind = "return"
             /\ IsSectionRun(lines, Split(result.value, <<"\n">>), s,
                             LeadingHashes(lines[s]))

\* result is the section of the lines for the request
IsSectionOf(lines, result, request) ==
    IsSectionFrom(lines, result, FirstMatch(lines, request))

\* C13: when a line matches the request, the result is the run of lines that starts
\* at the first such line, of level L, holds no later line of level <= L, and stops
\* only before a line of level <= L or at the end of the text: a heading deeper than
\* L does not end the section.
C13_SectionIsLevelAware ==
    pagResult # NotRun
    => IsSectionOf(Split(pagText, <<"\n">>), pagResult, Val(pagOptions.section))

\* the example of the claim: section "A" of "# A\n## B\nt\n# C\nt" is "# A\n## B\nt"
C13_Witness ==
    /\ pagText = Join(<<HeadingA, HeadingB, TextLine, HeadingC, TextLine>>, <<"\n">>)
    /\ pagOptions.section = Some(<<"A">>)
    /\ pagResult = Returned(Join(<<HeadingA, HeadingB, TextLine>>, <<"\n">>))

\* paragraphs n through m of the list, joined as the document joins them
ParagraphRun(paragraphs, n, m) == Join(SubSeq(paragraphs, n, m), <<"\n", "\n">>)

\* what a range that starts at paragraph n returns when it selects text, and the
\* placeholder when n is 0 or past the last paragraph
RangeResult(paragraphs, range, n, text) ==
    IF n >= 1 /\ n <= Len(paragraphs) THEN Returned(text)
    ELSE Returned(RangePlaceholder(range))

\* C14 as stated, for the range string written with n and m
RangeAsStated(paragraphs, range, n, m) ==
    /\ range = RangeSingle(n)
          => pagResult = RangeResult(paragraphs, range, n, ParagraphRun(paragraphs, n, n))
    /\ range = RangeOpen(n)
          => pagResult = RangeResult(paragraphs, range, n,
                                     ParagraphRun(paragraphs, n, Len(paragraphs)))
    /\ range = RangeClosed(n, m)
          => pagResult = RangeResult(paragraphs, range, n,
                                     ParagraphRun(paragraphs, n, Min(m, Len(paragraphs))))

\* C14 amended, for the range string written with n and m: a closed range that
\* ends before it starts returns the placeholder
RangeAsAmended(paragraphs, range, n, m) ==
    /\ range = RangeSingle(n)
          => pagResult = RangeResult(paragraphs, range, n, ParagraphRun(paragraphs, n, n))
    /\ range = RangeOpen(n)
          => pagResult = RangeResult(paragraphs, range, n,
                                     ParagraphRun(paragraphs, n, Len(paragraphs)))
    /\ range = RangeClosed(n, m)
          => pagResult = RangeResult(paragraphs, range, IF m >= n THEN n ELSE 0,
                                     ParagraphRun(paragraphs, n, Min(m, Len(paragraphs))))

\* C14 as stated: for a text of k paragraphs, "N" returns paragraph N, "N-"
\* paragraphs N through k and "N-M" paragraphs N through min(M, k), for every
\* 1 <= N <= k; a start of 0 or greater than k returns the placeholder.
C14_RangeIsInclusive ==
    (pagResult # NotRun /\ IsSet(pagOptions.paragraphRange))
    => \A n \in RangeNumbers, m \in RangeNumbers :
           RangeAsStated(Paragraphs(pagText), Val(pagOptions.paragraphRange), n, m)

\* C14 amended: as stated, for the ranges "N-M" with N <= M; a range "N-M" with
\* M < N returns the placeholder.
C14_RangeIsInclusiveFromStart ==
    (pagResult # NotRun /\ IsSet(pagOptions.paragraphRange))
    => \A n \in RangeNumbers, m \in RangeNumbers :
           RangeAsAmended(Paragraphs(pagText), Val(pagOptions.paragraphRange), n, m)

\* the range "2-4" on a document of three paragraphs has returned paragraphs 2 and 3
C14_Witness ==
    /\ pagOptions.paragraphRange = Some(RangeClosed(2, 4))
    /\ Len(Paragraphs(pagText)) = 3
    /\ pagResult = Returned(ParagraphRun(Paragraphs(pagText), 2, 3))

\* text is the first j of the paragraphs, joined, for some j >= 1
IsParagraphPrefix(text, paragraphs) ==
    \E j \in 1..Len(paragraphs) : text = ParagraphRun(paragraphs, 1, j)

\* the result of the range "N-M" against what the range "N-" selects: it is the
\* placeholder, or a prefix of those paragraphs
NarrowsOpenRange(range, open) ==
    \/ pagResult = Returned(RangePlaceholder(range))
    \/ /\ pagResult.kind = "return"
       /\ open # <<>>
       /\ IsParagraphPrefix(pagResult.value, Split(open, <<"\n", "\n">>))

\* C15: for the same text, the paragraphs the range "N-M" returns are a prefix of
\* those the range "N-" returns.
C15_ClosedRangeIsPrefixOfOpen ==
    (pagResult # NotRun /\ IsSet(pagOptions.paragraphRange))
    => \A n \in RangeNumbers, m \in RangeNumbers :
           Val(pagOptions.paragraphRange) = RangeClosed(n, m)
           => NarrowsOpenRange(RangeClosed(n, m), extractParagraphRange(pagText, RangeOpen(n)))

\* the range "1-2" has returned the first two of the three paragraphs the range
\* "1-" returns
C15_Witness ==
    /\ pagOptions.paragraphRange = Some(RangeClosed(1, 2))
    /\ Len(Paragraphs(pagText)) = 3
    /\ pagResult = Returned(ParagraphRun(Paragraphs(pagText), 1, 2))
    /\ extractParagraphRange(pagText, RangeOpen(1)) = ParagraphRun(Paragraphs(pagText), 1, 3)
    /\ pagResult.value # extractParagraphRange(pagText, RangeOpen(1))


----------------------------------------------------------------------------
\* C16: destroy() stops the background sweep and removes all entries, and is
\* idempotent: every destroy, the first and each later one, leaves an empty map
\* and no sweep timer; clearInterval has been called exactly once after any
\* number of destroys; no sweep tick runs once destroy has been called.
C16_DestroyIsIdempotent ==
    [][ /\ Destroy => /\ cache' = EmptyMap
                      /\ cleanupInterval' = Absent
                      /\ cancels' = 1
        /\ (destroys >= 1 /\ Destroy /\ cache = EmptyMap)
               => UNCHANGED <<cache, cleanupInterval, cancels>>
        /\ destroys >= 1 => ~SweepTick
        /\ destroys = 0 => cancels = 0 ]_vars

\* C16 witness: destroy has been called twice, the timer was cancelled once,
\* the map is empty, no timer is left, and the time at which the sweep was due
\* has passed
C16_Witness ==
    /\ destroys = 2
    /\ cancels = 1
    /\ cache = EmptyMap
    /\ cleanupInterval = Absent
    /\ now >= CLEANUP_INTERVAL


----------------------------------------------------------------------------
\* C17: the invocations share one map.  (a) An invocation whose get finds an
\* entry for its URL that has not expired, whichever invocation's set put it
\* there, is served from that entry: it ends at once as a hit, with the
\* pagination of that entry's markdown.  (b) Every set replaces whatever entry
\* another invocation left for the URL with its own content and the time of the
\* set, so the entry in the map is that of the last set executed.
C17_SharedCacheLastWriteWins ==
    [][\A i \in Slots :
        /\ (/\ inv[i].pc = "idle" /\ inv'[i].pc # "idle"
            /\ IsSet(cache[inv'[i].url])
            /\ ~isExpired(Val(cache[inv'[i].url]), now, ttlMs))
               => /\ inv'[i].pc = "done"
                  /\ inv'[i].hit
                  /\ ~inv'[i].fetched
                  /\ inv'[i].outcome =
                         hitOutcome(Val(cache[inv'[i].url]), inv'[i].options)
                  /\ cache' = cache
        /\ (inv[i].pc = "body" /\ inv'[i].stored)
               => \E htmlContent \in Bodies :
                      /\ cache'[inv[i].url] = Some(CacheEntry(htmlContent,
                                                  translate(htmlContent).value, now))
                      /\ BodyResolve(i, htmlContent)
                      /\ \A url \in URLs : url # inv[i].url => cache'[url] = cache[url]
       ]_vars

\* C17 witness: two invocations fetched the same URL concurrently and both
\* stored, with different content; the map holds the content of the one that
\* started first, so its set ran after the other's and replaced it
C17_Witness ==
    \E i, j \in Slots :
        /\ i < j
        /\ inv[i].pc = "done" /\ inv[i].stored /\ inv[i].options = NoOptions
        /\ inv[j].pc = "done" /\ inv[j].stored /\ inv[j].options = NoOptions
        /\ inv[i].url = inv[j].url
        /\ inv[i].outcome # inv[j].outcome
        /\ IsSet(cache[inv[i].url])
        /\ inv[i].outcome = ReturnedText(Val(cache[inv[i].url]).markdownContent)


----------------------------------------------------------------------------
\* the options without the character window
WithoutWindow(options) ==
    Options(Absent, Absent, options.section, options.paragraphRange, options.readHeadings)

\* the call has a character window and does not ask for the headings
WindowRequested(options) ==
    /\ IsSet(options.startChar) \/ IsSet(options.maxLength)
    /\ ~(IsSet(options.readHeadings) /\ Val(options.readHeadings))

\* what the section step hands on: the section when section is in effect, else the text
SectionStepText(text, options) ==
    IF TruthyStr(options.section) THEN extractSection(text, Val(options.section))
    ELSE Returned(text)

\* what the paragraph step hands on: the paragraphs selected when paragraphRange
\* is in effect, else the text
ParagraphStepText(text, options) ==
    IF TruthyStr(options.paragraphRange)
    THEN extractParagraphRange(text, Val(options.paragraphRange))
    ELSE text

\* the result with the window applied to what the earlier steps return
WindowOf(structural, options) ==
    Returned(applyCharacterPagination(structural.value, options.startChar, options.maxLength))

\* C18 as stated: with a character window and without readHeadings, on every path
\* the result is the character window of what the section and paragraph-range
\* steps return for the same text.
C18_WindowIsLastOnEveryPath ==
    (/\ pagResult # NotRun
     /\ WindowRequested(pagOptions)
     /\ pagResult.kind = "return")
    => pagResult = WindowOf(applyPaginationOptions(pagText, WithoutWindow(pagOptions)),
                            pagOptions)

\* the result the window has when the section step handed on sec
WindowedAfterSection(sec, options, result) ==
    IF TruthyStr(options.section) /\ sec = <<>>
    THEN result = Returned(Msg("Section \"") \o Val(options.section)
                           \o Msg("\" not found in the content."))
    ELSE IF TruthyStr(options.paragraphRange) /\ ParagraphStepText(sec, options) = <<>>
    THEN result = Returned(RangePlaceholder(Val(options.paragraphRange)))
    ELSE result = Returned(applyCharacterPagination(ParagraphStepText(sec, options),
                                                    options.startChar, options.maxLength))

\* C18 amended: with a character window and without readHeadings, when the
\* section step (if it fires) finds the section and the paragraph-range step (if
\* it fires) selects text, the result is the character window of the text those
\* steps produced; a 'not found' or 'invalid or out of bounds' placeholder is
\* returned whole, with no window applied to it.
C18_WindowIsLastOnText ==
    (/\ pagResult # NotRun
     /\ WindowRequested(pagOptions)
     /\ SectionStepText(pagText, pagOptions).kind = "return")
    => WindowedAfterSection(SectionStepText(pagText, pagOptions).value, pagOptions, pagResult)

\* C18 witness: the section step and the paragraph-range step both fired and
\* produced text, and the window cut that text down to a shorter, non-empty string
C18_Witness ==
    /\ pagResult # NotRun
    /\ WindowRequested(pagOptions)
    /\ TruthyStr(pagOptions.section)
    /\ TruthyStr(pagOptions.paragraphRange)
    /\ SectionStepText(pagText, pagOptions).kind = "return"
    /\ ParagraphStepText(SectionStepText(pagText, pagOptions).value, pagOptions) # <<>>
    /\ pagResult.kind = "return"
    /\ Len(pagResult.value) >= 1
    /\ Len(pagResult.value) <
           Len(ParagraphStepText(SectionStepText(pagText, pagOptions).value, pagOptions))


----------------------------------------------------------------------------
\* the section returned starts at a line the headings step would list, and the
\* line it stops before, if any, is one the headings step would list
BoundedByHeadings(lines, resultLines, s) ==
    /\ headingRegexTest(lines[s])
    /\ s + Len(resultLines) <= Len(lines)
           => headingRegexTest(lines[s + Len(resultLines)])

\* C19: the section starts and ends only at heading lines as extractHeadings
\* defines them (1 to 6 '#' followed by whitespace): a '#' line with no
\* whitespace after the markers is never the section start and never ends a section.
C19_SectionBoundariesAreHeadings ==
    (/\ pagResult # NotRun
     /\ pagResult.kind = "return"
     /\ FirstMatch(Split(pagText, <<"\n">>), Val(pagOptions.section)) > 0)
    => BoundedByHeadings(Split(pagText, <<"\n">>), Split(pagResult.value, <<"\n">>),
                         FirstMatch(Split(pagText, <<"\n">>), Val(pagOptions.section)))


----------------------------------------------------------------------------
\* how an invocation ended, as a caller tells results apart: the string returned,
\* or the name and the kind of the error thrown
Termination(outcome) ==
    IF outcome.status = "threw"
    THEN <<"threw", outcome.error.name, outcome.error.kind>>
    ELSE <<outcome.status, outcome.value>>

\* C20: an invocation served from the cache ends as the invocation that fetched,
\* converted and stored the same text would end with the same options: with the
\* same returned string or the same kind of failure.
C20_HitEqualsMiss ==
    [][\A i \in Slots :
        (inv[i].pc = "idle" /\ inv'[i].pc = "done" /\ inv'[i].hit)
        => Termination(inv'[i].outcome) =
               Termination(missResult(
                   applyPaginationOptions(Val(cache[inv'[i].url]).markdownContent,
                                          inv'[i].options),
                   inv'[i].url))
       ]_vars

=============================================================================
